---- MODULE Spec2Model ----
(***************************************************************************)
(* A model of organizer.py: the extension and folder classifiers, the      *)
(* collision-safe destination naming and the copy / verify / remove passes *)
(* of organize(), over an explicit file system.                            *)
(*                                                                         *)
(* A string is a sequence of one-character strings, so that lower-casing,  *)
(* suffix extraction, substring search and the " (N)" renaming are         *)
(* computed and not assumed.  A path is a sequence of names.               *)
(***************************************************************************)
EXTENDS Integers, Sequences, FiniteSets, TLC

(* ------------------------------ strings ------------------------------ *)

UpperChars ==
  << "A","B","C","D","E","F","G","H","I","J","K","L","M","N","O","P","Q","R",
     "S","T","U","V","W","X","Y","Z","Á","Í","Ó","Ú" >>

LowerChars ==
  << "a","b","c","d","e","f","g","h","i","j","k","l","m","n","o","p","q","r",
     "s","t","u","v","w","x","y","z","á","í","ó","ú" >>

\* Every other character the model's names use.
OtherChars == << " ", "(", ")", ".", "0","1","2","3","4","5","6","7","8","9" >>

Min(S) == CHOOSE x \in S : \A y \in S : x <= y

Max(S) == CHOOSE x \in S : \A y \in S : x >= y

\* The first position of x in seq, 0 when it is absent.
IndexOf(x, seq) ==
  LET hits == {k \in 1..Len(seq) : seq[k] = x}
  IN  IF hits = {} THEN 0 ELSE Min(hits)

InSeq(x, seq) == \E k \in 1..Len(seq) : seq[k] = x

LowerChar(c) ==
  LET k == IndexOf(c, UpperChars)
  IN  IF k = 0 THEN c ELSE LowerChars[k]

\* str.lower()
Lower(s) == [k \in 1..Len(s) |-> LowerChar(s[k])]

\* str.startswith
StartsWith(s, prefix) ==
  /\ Len(prefix) <= Len(s)
  /\ SubSeq(s, 1, Len(prefix)) = prefix

\* `needle in hay' for strings
Contains(hay, needle) ==
  \E k \in 0..(Len(hay) - Len(needle)) : SubSeq(hay, k + 1, k + Len(needle)) = needle

\* The position of the dot that starts the suffix of a name, 0 when the name
\* has no suffix: pathlib takes the last dot, unless it is the first or the
\* last character of the name.
SuffixDot(name) ==
  LET dots == {k \in 1..Len(name) : name[k] = "."}
  IN  IF dots = {} THEN 0
      ELSE IF 1 < Max(dots) /\ Max(dots) < Len(name) THEN Max(dots) ELSE 0

\* Path.suffix
Suffix(name) ==
  IF SuffixDot(name) = 0 THEN << >> ELSE SubSeq(name, SuffixDot(name), Len(name))

\* Path.stem
Stem(name) ==
  IF SuffixDot(name) = 0 THEN name ELSE SubSeq(name, 1, SuffixDot(name) - 1)

\* str(counter) for the counters the model reaches
Digits == << "0","1","2","3","4","5","6","7","8","9" >>

RECURSIVE Str(_)
Str(n) == IF n < 10 THEN << Digits[n + 1] >> ELSE Str(n \div 10) \o << Digits[(n % 10) + 1] >>

(* ------------------------------ tables ------------------------------- *)

\* An ordered dict is a sequence of its items in insertion order.
DEFAULT_MAP ==
  << [folder |-> <<"I","m","a","g","e","n","s">>,
        exts |->
          <<
            <<".","j","p","g">>, <<".","j","p","e","g">>, <<".","p","n","g">>,
            <<".","g","i","f">>, <<".","b","m","p">>, <<".","t","i","f","f">>,
            <<".","w","e","b","p">>, <<".","s","v","g">>, <<".","h","e","i","c">>
          >>],
     [folder |-> <<"D","o","c","u","m","e","n","t","o","s">>,
        exts |->
          <<
            <<".","p","d","f">>, <<".","d","o","c">>, <<".","d","o","c","x">>,
            <<".","t","x","t">>, <<".","r","t","f">>, <<".","o","d","t">>,
            <<".","c","s","v">>, <<".","x","l","s">>, <<".","x","l","s","x">>,
            <<".","p","p","t">>, <<".","p","p","t","x">>, <<".","m","d">>
          >>],
     [folder |-> <<"C","o","m","p","a","c","t","a","d","o","s">>,
        exts |->
          <<
            <<".","z","i","p">>, <<".","r","a","r">>, <<".","7","z">>,
            <<".","t","a","r">>, <<".","g","z">>, <<".","b","z","2">>,
            <<".","x","z">>
          >>],
     [folder |-> <<"V","í","d","e","o","s">>,
        exts |->
          <<
            <<".","m","p","4">>, <<".","m","k","v">>, <<".","m","o","v">>,
            <<".","a","v","i">>, <<".","w","m","v">>, <<".","f","l","v">>,
            <<".","w","e","b","m">>
          >>],
     [folder |-> <<"Á","u","d","i","o">>,
        exts |->
          <<
            <<".","m","p","3">>, <<".","w","a","v">>, <<".","f","l","a","c">>,
            <<".","a","a","c">>, <<".","o","g","g">>, <<".","m","4","a">>
          >>],
     [folder |-> <<"P","r","o","g","r","a","m","a","s">>,
        exts |->
          <<
            <<".","e","x","e">>, <<".","m","s","i">>, <<".","d","m","g">>,
            <<".","p","k","g">>, <<".","a","p","k">>
          >>],
     [folder |-> <<"C","ó","d","i","g","o">>,
        exts |->
          <<
            <<".","p","y">>, <<".","j","s">>, <<".","t","s">>,
            <<".","j","a","v","a">>, <<".","c">>, <<".","c","p","p">>,
            <<".","c","s">>, <<".","p","h","p">>, <<".","g","o">>, <<".","r","b">>,
            <<".","r","s">>, <<".","s","h">>, <<".","p","s","1">>
          >>],
     [folder |-> <<"D","e","s","i","g","n">>,
        exts |->
          <<
            <<".","p","s","d">>, <<".","a","i">>, <<".","x","d">>,
            <<".","f","i","g">>, <<".","s","k","e","t","c","h">>,
            <<".","e","p","s">>
          >>],
     [folder |-> <<"F","o","n","t","e","s">>,
        exts |->
          <<
            <<".","t","t","f">>, <<".","o","t","f">>, <<".","w","o","f","f">>,
            <<".","w","o","f","f","2">>
          >>] >>

FOLDER_KEYWORDS ==
  << [category |-> <<"I","m","a","g","e","n","s">>,
        keywords |->
          <<
            <<"f","o","t","o">>, <<"i","m","a","g","e">>, <<"i","m","g">>,
            <<"p","i","c","t","u","r","e">>,
            <<"s","c","r","e","e","n","s","h","o","t">>, <<"p","r","i","n","t">>,
            <<"c","a","p","t","u","r","a">>
          >>],
     [category |-> <<"D","o","c","u","m","e","n","t","o","s">>,
        keywords |->
          <<
            <<"d","o","c">>, <<"d","o","c","u","m","e","n","t">>,
            <<"t","e","x","t","o">>, <<"p","d","f">>, <<"w","o","r","d">>,
            <<"e","x","c","e","l">>, <<"p","o","w","e","r","p","o","i","n","t">>
          >>],
     [category |-> <<"V","í","d","e","o","s">>,
        keywords |->
          <<
            <<"v","i","d","e","o">>, <<"m","o","v","i","e">>, <<"f","i","l","m">>,
            <<"m","p","4">>, <<"a","v","i">>, <<"m","k","v">>,
            <<"y","o","u","t","u","b","e">>
          >>],
     [category |-> <<"Á","u","d","i","o">>,
        keywords |->
          <<
            <<"a","u","d","i","o">>, <<"m","u","s","i","c">>, <<"s","o","n","g">>,
            <<"m","p","3">>, <<"s","o","u","n","d">>, <<"m","ú","s","i","c","a">>
          >>],
     [category |-> <<"P","r","o","g","r","a","m","a","s">>,
        keywords |->
          <<
            <<"p","r","o","g","r","a","m">>, <<"s","o","f","t","w","a","r","e">>,
            <<"a","p","p">>, <<"i","n","s","t","a","l","l">>,
            <<"s","e","t","u","p">>, <<"e","x","e">>
          >>],
     [category |-> <<"C","o","m","p","a","c","t","a","d","o","s">>,
        keywords |->
          <<
            <<"z","i","p">>, <<"r","a","r">>, <<"7","z">>,
            <<"c","o","m","p","a","c","t">>, <<"a","r","c","h","i","v","e">>,
            <<"b","a","c","k","u","p">>
          >>],
     [category |-> <<"C","ó","d","i","g","o">>,
        keywords |->
          <<
            <<"c","o","d","e">>, <<"p","r","o","g","r","a","m","m","i","n","g">>,
            <<"d","e","v">>, <<"p","r","o","j","e","c","t">>,
            <<"s","o","u","r","c","e">>, <<"g","i","t","h","u","b">>
          >>],
     [category |-> <<"D","e","s","i","g","n">>,
        keywords |->
          <<
            <<"d","e","s","i","g","n">>, <<"a","r","t">>,
            <<"c","r","e","a","t","i","v","e">>,
            <<"p","h","o","t","o","s","h","o","p">>,
            <<"i","l","l","u","s","t","r","a","t","o","r">>
          >>] >>

\* The literal "Outros" of analyze_folder_content.
OUTROS == <<"O","u","t","r","o","s">>

(* ---------------------------- classifiers ---------------------------- *)

\* One extension of a configuration file, as load_map rewrites it.
NormalizeExt(e) ==
  IF StartsWith(e, << "." >>) THEN Lower(e) ELSE << "." >> \o Lower(e)

\* load_map: a configuration is [given, readable, data]; data is the parsed
\* JSON object, a sequence of [folder, exts].
load_map(config) ==
  IF ~config.given \/ ~config.readable
  THEN DEFAULT_MAP
  ELSE [k \in 1..Len(config.data) |->
          [folder |-> config.data[k].folder,
           exts   |-> [n \in 1..Len(config.data[k].exts) |->
                         NormalizeExt(config.data[k].exts[n])]]]

RECURSIVE GuessFolderLoop(_, _, _, _)
GuessFolderLoop(ext, ext_map, k, unknown_name) ==
  IF k > Len(ext_map) THEN unknown_name
  ELSE IF InSeq(ext, ext_map[k].exts) THEN ext_map[k].folder
  ELSE GuessFolderLoop(ext, ext_map, k + 1, unknown_name)

\* A faulty variant of guess_folder: the extension is looked up in the case
\* it was written in.
guess_folder_as_written(ext, ext_map, unknown_name) ==
  GuessFolderLoop(ext, ext_map, 1, unknown_name)

guess_folder(ext, ext_map, unknown_name) ==
  GuessFolderLoop(Lower(ext), ext_map, 1, unknown_name)

RECURSIVE GuessTypeLoop(_, _, _, _)
GuessTypeLoop(folder_lower, c, k, unknown_name) ==
  IF c > Len(FOLDER_KEYWORDS) THEN unknown_name
  ELSE IF k > Len(FOLDER_KEYWORDS[c].keywords)
       THEN GuessTypeLoop(folder_lower, c + 1, 1, unknown_name)
  ELSE IF Contains(folder_lower, FOLDER_KEYWORDS[c].keywords[k])
       THEN FOLDER_KEYWORDS[c].category
  ELSE GuessTypeLoop(folder_lower, c, k + 1, unknown_name)

guess_folder_type(folder_name, unknown_name) ==
  GuessTypeLoop(Lower(folder_name), 1, 1, unknown_name)

\* file_types[category] = file_types.get(category, 0) + 1 on an ordered dict
TallyAdd(file_types, category) ==
  LET at == {k \in 1..Len(file_types) : file_types[k].category = category}
  IN  IF at = {}
      THEN Append(file_types, [category |-> category, n |-> 1])
      ELSE LET k == CHOOSE k \in at : TRUE
           IN  [file_types EXCEPT ![k].n = @ + 1]

\* A faulty variant of TallyMax: among equals the key inserted last.
TallyMaxLast(file_types) ==
  LET best == Max({k \in 1..Len(file_types) :
                     \A m \in 1..Len(file_types) : file_types[m].n <= file_types[k].n})
  IN  file_types[best].category

\* max(file_types, key=file_types.get): the first key, in insertion order,
\* that no other key exceeds.
TallyMax(file_types) ==
  LET best == Min({k \in 1..Len(file_types) :
                     \A m \in 1..Len(file_types) : file_types[m].n <= file_types[k].n})
  IN  file_types[best].category

\* One turn of the loop of analyze_folder_content on an item [name, is_file]:
\* a file is tallied under the category of its lower-cased suffix and counted.
TallyStep(item, ext_map, tally) ==
  IF item.is_file
  THEN [file_types |-> TallyAdd(tally.file_types,
                                guess_folder(Lower(Suffix(item.name)), ext_map, OUTROS)),
        file_count |-> tally.file_count + 1]
  ELSE tally

\* The loop is over: the listing is exhausted or the limit is reached.
TallyOver(items, k, max_files, tally) ==
  k > Len(items) \/ tally.file_count >= max_files

\* The loop of analyze_folder_content from item k of a listing on.
RECURSIVE TallyLoop(_, _, _, _, _)
TallyLoop(items, k, ext_map, max_files, tally) ==
  IF TallyOver(items, k, max_files, tally) THEN tally
  ELSE TallyLoop(items, k + 1, ext_map, max_files, TallyStep(items[k], ext_map, tally))

\* What analyze_folder_content returns once its loop is over.
TallyResult(tally) ==
  IF tally.file_types = << >> THEN OUTROS ELSE TallyMax(tally.file_types)

NoTally == [file_types |-> << >>, file_count |-> 0]

\* analyze_folder_content once os.listdir has answered.
AnalyzeItems(items, ext_map, max_files) ==
  TallyResult(TallyLoop(items, 1, ext_map, max_files, NoTally))

\* The default of analyze_folder_content's max_files parameter.
DefaultMaxFiles == 50

(* ---------------------------- file system ---------------------------- *)

\* A file system is a function from the paths that exist to their nodes.  A
\* node is a directory or a file with a byte size; acc is what the operating
\* system lets a process do with it: "ok", "noread" (its content cannot be
\* read) or "nodelete" (removing it is refused).
DirNode == [kind |-> "dir", size |-> 0, acc |-> "ok"]

FileNode(size, acc) == [kind |-> "file", size |-> size, acc |-> acc]

\* Path.exists()
Exists(fs, p) == p \in DOMAIN fs

\* Path.is_dir()
IsDir(fs, p) == Exists(fs, p) /\ fs[p].kind = "dir"

\* Path.is_file()
IsFile(fs, p) == Exists(fs, p) /\ fs[p].kind = "file"

\* Path.parent
Parent(p) == SubSeq(p, 1, Len(p) - 1)

\* Path.name
Name(p) == p[Len(p)]

\* p is d or lies below d.
IsPrefix(d, p) == Len(d) <= Len(p) /\ SubSeq(p, 1, Len(d)) = d

Children(fs, d) == {p \in DOMAIN fs : Len(p) = Len(d) + 1 /\ IsPrefix(d, p)}

\* The order in which the file system lists a directory is its own: the
\* model lists by name in a fixed order of the characters, forwards or, with
\* rev, backwards.
CharRank(c) == IndexOf(c, OtherChars \o UpperChars \o LowerChars)

NameLess(a, b) ==
  \E k \in 1..Len(b) :
    /\ k <= Len(a) + 1
    /\ SubSeq(a, 1, k - 1) = SubSeq(b, 1, k - 1)
    /\ (k = Len(a) + 1 \/ CharRank(a[k]) < CharRank(b[k]))

RECURSIVE SortPaths(_, _)
SortPaths(S, rev) ==
  IF S = {} THEN << >>
  ELSE LET first == CHOOSE p \in S : \A q \in S :
                      \/ q = p
                      \/ (IF rev THEN NameLess(Name(q), Name(p))
                                 ELSE NameLess(Name(p), Name(q)))
       IN  << first >> \o SortPaths(S \ {first}, rev)

\* list(d.iterdir()) and, by name, os.listdir(d)
Listing(fs, rev, d) == SortPaths(Children(fs, d), rev)

\* Path.mkdir(parents=True, exist_ok=True) raises when the path, or a
\* parent of it, is a file.
MkdirFails(fs, p) == \E k \in 1..Len(p) : IsFile(fs, SubSeq(p, 1, k))

Mkdir(fs, p) ==
  [q \in DOMAIN fs \cup {SubSeq(p, 1, k) : k \in 0..Len(p)} |->
     IF q \in DOMAIN fs THEN fs[q] ELSE DirNode]

\* shutil.copy2(src, dst) raises when src cannot be read or dst is src
\* itself; it copies the content and the permissions.
Copy2Fails(fs, src, dst) == fs[src].acc = "noread" \/ src = dst

Copy2(fs, src, dst) ==
  [q \in DOMAIN fs \cup {dst} |-> IF q = dst THEN fs[src] ELSE fs[q]]

\* The paths of the tree rooted at d, d included.
Tree(fs, d) == {p \in DOMAIN fs : IsPrefix(d, p)}

\* The longest path, in names, the file system lets a process make: a
\* longer one is refused with OSError (File name too long).
MaxPathLen == 6

\* shutil.copytree(src, dst, dirs_exist_ok=True): src is listed, dst is
\* made, and the entries listed are copied one after the other, a directory
\* by copytree itself, which lists it when its turn comes.  An entry that
\* cannot be copied is noted and the loop goes on; copytree raises at the
\* end when anything was noted, at once when src cannot be listed, and from
\* makedirs when dst is too long a path.  The result is the file system it
\* leaves and whether it raised.
RECURSIVE CopyTreeRun(_, _, _, _)
RECURSIVE CopyTreeEntries(_, _, _, _, _, _)
CopyTreeEntries(run, rev, entries, k, src, dst) ==
  IF k > Len(entries) THEN run
  ELSE LET srcobj  == entries[k]
           dstname == Append(dst, Name(srcobj))
           next    == IF IsDir(run.fs, srcobj)
                      THEN LET sub == CopyTreeRun(run.fs, rev, srcobj, dstname)
                           IN  [fs |-> sub.fs, failed |-> run.failed \/ sub.failed]
                      ELSE IF Copy2Fails(run.fs, srcobj, dstname)
                      THEN [run EXCEPT !.failed = TRUE]
                      ELSE [run EXCEPT !.fs = Copy2(@, srcobj, dstname)]
       IN  CopyTreeEntries(next, rev, entries, k + 1, src, dst)

CopyTreeRun(fs, rev, src, dst) ==
  IF fs[src].acc = "noread" \/ Len(dst) > MaxPathLen \/ MkdirFails(fs, dst)
  THEN [fs |-> fs, failed |-> TRUE]
  ELSE CopyTreeEntries([fs |-> Mkdir(fs, dst), failed |-> FALSE], rev,
                       Listing(fs, rev, src), 1, src, dst)

\* Path.unlink() of a file
UnlinkFails(fs, p) == fs[p].acc = "nodelete"

Unlink(fs, p) == [q \in DOMAIN fs \ {p} |-> fs[q]]

\* shutil.rmtree(d) removes the entries of d in listing order, a
\* subdirectory with all it holds, and stops at the first entry whose removal
\* is refused, leaving that entry, the entries after it and d itself.
RmTreeFails(fs, d) == \E p \in Tree(fs, d) : fs[p].acc = "nodelete"

RECURSIVE RmTreeLoop(_, _, _, _)
RmTreeLoop(fs, rev, items, k) ==
  IF k > Len(items) THEN fs
  ELSE IF RmTreeFails(fs, items[k])
       THEN IF IsDir(fs, items[k])
            THEN RmTreeLoop(fs, rev, Listing(fs, rev, items[k]), 1)
            ELSE fs
  ELSE RmTreeLoop([q \in DOMAIN fs \ Tree(fs, items[k]) |-> fs[q]], rev, items, k + 1)

RmTree(fs, rev, d) ==
  IF RmTreeFails(fs, d)
  THEN RmTreeLoop(fs, rev, Listing(fs, rev, d), 1)
  ELSE [q \in DOMAIN fs \ Tree(fs, d) |-> fs[q]]

\* Path.rmdir() of an empty directory
Rmdir(fs, d) == [q \in DOMAIN fs \ {d} |-> fs[q]]

(* ------------------------------ organize ----------------------------- *)

\* A log line.  The lines that name a destination carry it in target; the
\* others leave it empty.
Line(tag, verb, name, target) ==
  [tag |-> tag, verb |-> verb, name |-> name, target |-> target]

\* target_dir / f"{p.stem} ({counter}){p.suffix}" for a file,
\* target_dir / f"{p.name} ({counter})" for a directory
NumberedName(name, is_dir, counter) ==
  LET mark == << " ", "(" >> \o Str(counter) \o << ")" >>
  IN  IF is_dir THEN name \o mark ELSE Stem(name) \o mark \o Suffix(name)

\* The while loop that avoids overwriting: without links, two paths resolve
\* to the same object exactly when they are the same path.
RECURSIVE ResolveLoop(_, _, _, _, _, _)
ResolveLoop(fs, target_dir, p, is_dir, target_path, counter) ==
  IF Exists(fs, target_path) /\ target_path # p
  THEN ResolveLoop(fs, target_dir, p, is_dir,
                   Append(target_dir, NumberedName(Name(p), is_dir, counter)),
                   counter + 1)
  ELSE target_path

\* A faulty variant of ResolveTarget: the candidate name is taken as it is,
\* whatever is there.
ResolveTargetNoLoop(fs, target_dir, p, is_dir) ==
  Append(target_dir, Name(p))

ResolveTarget(fs, target_dir, p, is_dir) ==
  ResolveLoop(fs, target_dir, p, is_dir, Append(target_dir, Name(p)), 1)

\* analyze_folder_content on the file system: a directory that cannot be
\* listed gives "Outros".
analyze_folder_content(fs, rev, folder_path, ext_map) ==
  IF fs[folder_path].acc = "noread" THEN OUTROS
  ELSE LET listed == Listing(fs, rev, folder_path)
           items  == [k \in 1..Len(listed) |->
                        [name |-> Name(listed[k]), is_file |-> IsFile(fs, listed[k])]]
       IN  AnalyzeItems(items, ext_map, DefaultMaxFiles)

\* category_names
CategoryNames(a) == {a.ext_map[k].folder : k \in 1..Len(a.ext_map)} \cup {a.unknown_name}

\* The category of a directory: by its name, and by its content when the
\* name gave unknown_name.
FolderNeedsContent(a, p) == guess_folder_type(Name(p), a.unknown_name) = a.unknown_name

FolderCategory(a, fs, rev, p) ==
  IF FolderNeedsContent(a, p)
  THEN analyze_folder_content(fs, rev, p, a.ext_map)
  ELSE guess_folder_type(Name(p), a.unknown_name)

Verb(a) == IF a.mode = "copy" THEN "COPIAR" ELSE "MOVER"

\* The state a call of organize works on: the file system, its locals, and
\* two records of what it did that the code does not keep: decisions (the
\* category and the destination each entry was given) and inspected (the
\* directories whose content was listed to classify them).
NewCall(fs) ==
  [fs |-> fs, logs |-> << >>, moved |-> 0, skipped |-> 0, errors |-> 0,
   files_to_remove |-> << >>, folders_to_remove |-> << >>,
   decisions |-> << >>, inspected |-> {}, raised |-> FALSE]

Decision(p, target_folder, target_path) ==
  [entry |-> p, category |-> target_folder, target |-> target_path]

\* One directory of the first pass.
ProcessFolder(a, rev, st, p) ==
  LET inspects      == FolderNeedsContent(a, p)
      target_folder == FolderCategory(a, st.fs, rev, p)
      target_dir    == Append(a.dest_root, target_folder)
      seen          == IF inspects THEN st.inspected \cup {p} ELSE st.inspected
      fs1           == Mkdir(st.fs, target_dir)
      target_path   == ResolveTarget(fs1, target_dir, p, TRUE)
      decided       == Append(st.decisions, Decision(p, target_folder, target_path))
      failed        == Line("ERRO", "PASTA", Name(p), << >>)
      copied        == CopyTreeRun(fs1, rev, p, target_path)
  IN  IF MkdirFails(st.fs, target_dir)
      THEN [st EXCEPT !.inspected = seen,
                      !.logs = Append(@, failed), !.errors = @ + 1]
      ELSE IF a.dry_run
      THEN [st EXCEPT !.fs = fs1, !.inspected = seen, !.decisions = decided,
                      !.logs = Append(@, Line("DRY-RUN", Verb(a) \o " PASTA",
                                              Name(p), target_path))]
      ELSE IF copied.failed
      THEN [st EXCEPT !.fs = copied.fs,
                      !.inspected = seen, !.decisions = decided,
                      !.logs = Append(@, failed), !.errors = @ + 1]
      ELSE [st EXCEPT !.fs = copied.fs,
                      !.inspected = seen, !.decisions = decided,
                      !.logs = Append(@, Line("OK", "COPIAR PASTA", Name(p), target_path)),
                      !.moved = @ + 1,
                      !.folders_to_remove =
                         IF a.mode = "move" THEN Append(@, p) ELSE @]

\* A faulty variant of ProcessFile: in move mode the original is removed as
\* soon as it is copied.
ProcessFileMovesAtOnce(a, st, p) ==
  LET target_folder == guess_folder(Suffix(Name(p)), a.ext_map, a.unknown_name)
      target_dir    == Append(a.dest_root, target_folder)
      fs1           == Mkdir(st.fs, target_dir)
      target_path   == ResolveTarget(fs1, target_dir, p, FALSE)
      decided       == Append(st.decisions, Decision(p, target_folder, target_path))
  IN  IF StartsWith(Name(p), << "." >>) /\ Suffix(Name(p)) = << >>
      THEN [st EXCEPT !.skipped = @ + 1]
      ELSE IF MkdirFails(st.fs, target_dir)
      THEN [st EXCEPT !.raised = TRUE]
      ELSE IF a.dry_run
      THEN [st EXCEPT !.fs = fs1, !.decisions = decided,
                      !.logs = Append(@, Line("DRY-RUN", Verb(a), Name(p), target_path))]
      ELSE IF Copy2Fails(fs1, p, target_path)
      THEN [st EXCEPT !.fs = fs1, !.decisions = decided,
                      !.logs = Append(@, Line("ERRO", "", Name(p), << >>)),
                      !.errors = @ + 1]
      ELSE [st EXCEPT !.fs = IF a.mode = "move" /\ ~UnlinkFails(fs1, p)
                             THEN Unlink(Copy2(fs1, p, target_path), p)
                             ELSE Copy2(fs1, p, target_path),
                      !.decisions = decided,
                      !.logs = Append(@, Line("OK", "COPIAR", Name(p), target_path)),
                      !.moved = @ + 1]

\* One file of the first pass.  The category folder is made and the
\* destination resolved before the try block: a failure there leaves
\* organize as an exception.
ProcessFile(a, st, p) ==
  LET target_folder == guess_folder(Suffix(Name(p)), a.ext_map, a.unknown_name)
      target_dir    == Append(a.dest_root, target_folder)
      fs1           == Mkdir(st.fs, target_dir)
      target_path   == ResolveTarget(fs1, target_dir, p, FALSE)
      decided       == Append(st.decisions, Decision(p, target_folder, target_path))
  IN  IF StartsWith(Name(p), << "." >>) /\ Suffix(Name(p)) = << >>
      THEN [st EXCEPT !.skipped = @ + 1]
      ELSE IF MkdirFails(st.fs, target_dir)
      THEN [st EXCEPT !.raised = TRUE]
      ELSE IF a.dry_run
      THEN [st EXCEPT !.fs = fs1, !.decisions = decided,
                      !.logs = Append(@, Line("DRY-RUN", Verb(a), Name(p), target_path))]
      ELSE IF Copy2Fails(fs1, p, target_path)
      THEN [st EXCEPT !.fs = fs1, !.decisions = decided,
                      !.logs = Append(@, Line("ERRO", "", Name(p), << >>)),
                      !.errors = @ + 1]
      ELSE [st EXCEPT !.fs = Copy2(fs1, p, target_path), !.decisions = decided,
                      !.logs = Append(@, Line("OK", "COPIAR", Name(p), target_path)),
                      !.moved = @ + 1,
                      !.files_to_remove =
                         IF a.mode = "move" THEN Append(@, p) ELSE @]

\* One iteration of `for p in source_items'.
ProcessEntry(a, rev, st, p) ==
  IF IsDir(st.fs, p)
  THEN IF Name(p) \in CategoryNames(a) THEN st ELSE ProcessFolder(a, rev, st, p)
  ELSE ProcessFile(a, st, p)

\* The second pass checks a queued file at dest_root / category / name and
\* a queued directory at dest_root / category / name, the category being
\* worked out again from the original.
FileCheckPath(a, original_file) ==
  Append(Append(a.dest_root,
                guess_folder(Suffix(Name(original_file)), a.ext_map, a.unknown_name)),
         Name(original_file))

FolderCheckPath(a, fs, rev, original_folder) ==
  Append(Append(a.dest_root, FolderCategory(a, fs, rev, original_folder)),
         Name(original_folder))

FileVerified(a, fs, original_file) ==
  /\ Exists(fs, FileCheckPath(a, original_file))
  /\ fs[original_file].size = fs[FileCheckPath(a, original_file)].size

FolderVerified(a, fs, rev, original_folder) ==
  Exists(fs, FolderCheckPath(a, fs, rev, original_folder))

AllVerified(a, fs, rev, files, folders) ==
  /\ \A k \in 1..Len(files) : FileVerified(a, fs, files[k])
  /\ \A k \in 1..Len(folders) : FolderVerified(a, fs, rev, folders[k])

\* The lines the two checking loops log, in their order.
RECURSIVE FileCheckLines(_, _, _, _)
FileCheckLines(a, fs, files, k) ==
  IF k > Len(files) THEN << >>
  ELSE (IF FileVerified(a, fs, files[k]) THEN << >>
        ELSE << Line("ERRO",
                     IF Exists(fs, FileCheckPath(a, files[k]))
                     THEN "Tamanhos diferentes"
                     ELSE "Arquivo nao encontrado no destino",
                     Name(files[k]), FileCheckPath(a, files[k])) >>)
       \o FileCheckLines(a, fs, files, k + 1)

RECURSIVE FolderCheckLines(_, _, _, _, _)
FolderCheckLines(a, fs, rev, folders, k) ==
  IF k > Len(folders) THEN << >>
  ELSE (IF FolderVerified(a, fs, rev, folders[k]) THEN << >>
        ELSE << Line("ERRO", "Pasta nao encontrada no destino",
                     Name(folders[k]), FolderCheckPath(a, fs, rev, folders[k])) >>)
       \o FolderCheckLines(a, fs, rev, folders, k + 1)

\* A faulty variant of SecondPassRuns: the errors of the first pass are not
\* looked at.
SecondPassRunsDespiteErrors(a, files, folders, errs) ==
  /\ a.mode = "move"
  /\ ~a.dry_run
  /\ (files # << >> \/ folders # << >>)

\* The condition under which the second pass runs.
SecondPassRuns(a, files, folders, errs) ==
  /\ a.mode = "move"
  /\ ~a.dry_run
  /\ (files # << >> \/ folders # << >>)
  /\ errs = 0

\* The directories the delete_empty loop removes: the empty direct
\* subdirectories of source, as listed when the loop runs.
EmptySubdirs(fs, source) ==
  {d \in Children(fs, source) : IsDir(fs, d) /\ Children(fs, d) = {}}

\* A faulty variant of Prune: the folders named as a category are spared.
PruneSparesCategoryFolders(a, fs) ==
  IF a.delete_empty /\ ~a.dry_run
  THEN [q \in DOMAIN fs \ {d \in EmptySubdirs(fs, a.source) :
                              Name(d) \notin CategoryNames(a)} |-> fs[q]]
  ELSE fs

Prune(a, fs) ==
  IF a.delete_empty /\ ~a.dry_run
  THEN [q \in DOMAIN fs \ EmptySubdirs(fs, a.source) |-> fs[q]]
  ELSE fs

(* ------------------------------- state ------------------------------- *)

\* The names the initial file systems are built from.
DOWNLOADS == <<"D","o","w","n","l","o","a","d","s">>

ORGANIZADO == <<"O","r","g","a","n","i","z","a","d","o">>

MISSING == <<"m","i","s","s","i","n","g">>

NOTES_TXT == <<"n","o","t","e","s",".","t","x","t">>

DIVERSOS == <<"D","i","v","e","r","s","o","s">>

IMAGENS == <<"I","m","a","g","e","n","s">>

DOCS == <<"D","o","c","s">>

A_PDF == <<"a",".","p","d","f">>

A_1_PDF == <<"a"," ","(","1",")",".","p","d","f">>

B_JPG == <<"B",".","J","P","G">>

HID == <<".","h","i","d">>

S_TXT == <<"s",".","t","x","t">>

K_MP3 == <<"k",".","m","p","3">>

FOTOS == <<"f","o","t","o","s">>

N_TXT == <<"n",".","t","x","t">>

MIX == <<"m","i","x">>

P_JPG == <<"p",".","j","p","g">>

Q_TXT == <<"q",".","t","x","t">>

SUB == <<"s","u","b">>

DOCUMENTOS == <<"D","o","c","u","m","e","n","t","o","s">>

D_PDF == <<"d",".","p","d","f">>

VAZIO == <<"v","a","z","i","o">>

LOCK == <<"l","o","c","k">>

Z_ZIP == <<"z",".","z","i","p">>

\* Bounds of the model: how many entries the source directory holds at
\* first, and how many times organize is called on it.
MaxEntries == 2

MaxCalls == 2

VARIABLES
  fs,                 \* the file system
  rev,                \* the file system's listing order
  args,               \* the arguments of the running call of organize
  calls,              \* how many calls main has made
  pc,                 \* where the call is
  exc,                \* the exception that left the call, if any
  fs0,                \* the file system when the call began
  source_items,       \* the snapshot of source
  i,                  \* the next entry of the first pass
  logs, moved, skipped, errors, files_to_remove, folders_to_remove,
  decisions, inspected,
  all_verified,
  j,                  \* the next queued original to remove
  result,             \* what the call returned
  probe               \* a classifier call made on its own, and its answer

vars ==
  << fs, rev, args, calls, pc, exc, fs0, source_items, i, logs, moved, skipped,
     errors, files_to_remove, folders_to_remove, decisions, inspected,
     all_verified, j, result, probe >>

\* The entries the source directory may hold at first, each a tree of
\* relative paths.
Pool ==
  << (<< A_PDF >> :> FileNode(1, "ok")),
     (<< A_1_PDF >> :> FileNode(1, "ok")),
     (<< B_JPG >> :> FileNode(2, "ok")),
     (<< HID >> :> FileNode(1, "ok")),
     (<< IMAGENS >> :> FileNode(1, "ok")),
     (<< S_TXT >> :> FileNode(1, "noread")),
     (<< K_MP3 >> :> FileNode(1, "nodelete")),
     (<< FOTOS >> :> DirNode) @@ (<< FOTOS, N_TXT >> :> FileNode(1, "ok")),
     (<< MIX >> :> DirNode) @@ (<< MIX, P_JPG >> :> FileNode(1, "ok"))
        @@ (<< MIX, Q_TXT >> :> FileNode(1, "ok")) @@ (<< MIX, SUB >> :> DirNode),
     (<< DOCUMENTOS >> :> DirNode) @@ (<< DOCUMENTOS, D_PDF >> :> FileNode(1, "ok")),
     (<< VAZIO >> :> DirNode),
     (<< LOCK >> :> DirNode) @@ (<< LOCK, Z_ZIP >> :> FileNode(1, "nodelete")) >>

\* The trees of `trees' put below the directory base.
Graft(base, trees) ==
  LET placed == UNION {{<< t, r >> : r \in DOMAIN t} : t \in trees}
  IN  [q \in {base \o pr[2] : pr \in placed} |->
         LET pr == CHOOSE pr \in placed : base \o pr[2] = q IN pr[1][pr[2]]]

\* The configuration files main may be given, and the fallback names.
CustomConfig ==
  [given |-> TRUE, readable |-> TRUE,
   data |-> << [folder |-> DOCS,
                exts |-> << <<"P","D","F">>, <<".","T","x","t">> >>] >>]

NoConfig == [given |-> FALSE, readable |-> FALSE, data |-> << >>]

Settings ==
  { [config |-> NoConfig, unknown_name |-> OUTROS],
    [config |-> NoConfig, unknown_name |-> DIVERSOS],
    [config |-> CustomConfig, unknown_name |-> IMAGENS] }

\* What an earlier run may have left at the destination: nothing, or a.pdf
\* in its category folder, with the size of the source's a.pdf or another,
\* and then perhaps "a (1).pdf" beside it, of that other size too.
EarlierSizes == {0, 1, 2}

Earlier(a, size, both) ==
  IF size = 0 THEN << >> :> DirNode
  ELSE LET target_dir == Append(a.dest_root,
                                guess_folder(Suffix(A_PDF), a.ext_map, a.unknown_name))
           left       == IF both THEN {A_PDF, A_1_PDF} ELSE {A_PDF}
       IN  Graft(target_dir, {<< name >> :> FileNode(size, "ok") : name \in left})
           @@ Mkdir(<< >> :> DirNode, target_dir)

\* The calls made: by main, which leaves max_workers at its default, with
\* dest_root the source itself (the default), a directory beside it or, with
\* the default map and fallback name, a directory inside it; and by the
\* window, which passes the number of threads asked for.
DefaultMaxWorkers == 4

Call(dest, mode, dry_run, delete_empty, s, max_workers) ==
  [source |-> << DOWNLOADS >>, dest_root |-> dest, mode |-> mode,
   dry_run |-> dry_run, delete_empty |-> delete_empty,
   unknown_name |-> s.unknown_name, ext_map |-> load_map(s.config),
   max_workers |-> max_workers]

Arguments ==
  { Call(dest, mode, dry_run, delete_empty, s, DefaultMaxWorkers) :
      dest \in {<< DOWNLOADS >>, << ORGANIZADO >>}, mode \in {"move", "copy"},
      dry_run \in BOOLEAN, delete_empty \in BOOLEAN, s \in Settings }
  \cup
  { Call(dest, mode, dry_run, FALSE, [config |-> NoConfig, unknown_name |-> OUTROS],
         max_workers) :
      dest \in {<< ORGANIZADO >>, << DOWNLOADS, ORGANIZADO >>}, mode \in {"move", "copy"},
      dry_run \in BOOLEAN, max_workers \in {1, DefaultMaxWorkers} }

\* The calls whose source is not a directory: it is missing, or it is a file.
BadArguments ==
  { [a EXCEPT !.source = src] :
      a \in {a \in Arguments : a.dest_root = << ORGANIZADO >>},
      src \in {<< MISSING >>, << NOTES_TXT >>} }

NoResult == [returned |-> FALSE, processed |-> 0, moved |-> 0, skipped |-> 0, errors |-> 0]

NoProbe == [op |-> "none"]

\* The locals of organize as a call begins.
Locals(st) ==
  /\ logs = st.logs /\ moved = st.moved /\ skipped = st.skipped /\ errors = st.errors
  /\ files_to_remove = st.files_to_remove /\ folders_to_remove = st.folders_to_remove
  /\ decisions = st.decisions /\ inspected = st.inspected

InitCall ==
  /\ calls = 1 /\ pc = "start" /\ exc = "none" /\ fs0 = fs
  /\ source_items = << >> /\ i = 1 /\ j = 1 /\ all_verified = FALSE
  /\ result = NoResult /\ probe = NoProbe
  /\ Locals(NewCall(fs))

\* main is about to call organize.
Init ==
  /\ rev \in BOOLEAN
  /\ \/ /\ args \in Arguments
        /\ \E chosen \in SUBSET (1..Len(Pool)), size \in EarlierSizes, both \in BOOLEAN :
             /\ Cardinality(chosen) <= MaxEntries
             /\ size # 0 => 1 \in chosen
             /\ both => (size = 2 /\ 2 \in chosen)
             /\ fs = Graft(<< DOWNLOADS >>, {Pool[k] : k \in chosen})
                       @@ Earlier(args, size, both) @@ (<< DOWNLOADS >> :> DirNode)
     \/ /\ args \in BadArguments
        /\ fs = (<< >> :> DirNode) @@ (<< NOTES_TXT >> :> FileNode(1, "ok"))
  /\ InitCall

\* The locals as one record, and their next values from one.
Cur ==
  [fs |-> fs, logs |-> logs, moved |-> moved, skipped |-> skipped, errors |-> errors,
   files_to_remove |-> files_to_remove, folders_to_remove |-> folders_to_remove,
   decisions |-> decisions, inspected |-> inspected, raised |-> FALSE]

Becomes(st) ==
  /\ fs' = st.fs /\ logs' = st.logs /\ moved' = st.moved /\ skipped' = st.skipped
  /\ errors' = st.errors /\ files_to_remove' = st.files_to_remove
  /\ folders_to_remove' = st.folders_to_remove
  /\ decisions' = st.decisions /\ inspected' = st.inspected

\* A faulty variant of Start: dest_root is made before the source is checked.
StartMakesDestFirst ==
  /\ pc = "start"
  /\ IF MkdirFails(fs, args.dest_root)
     THEN pc' = "raised" /\ exc' = "FileExistsError" /\ UNCHANGED << fs, source_items >>
     ELSE IF ~IsDir(fs, args.source)
     THEN /\ fs' = Mkdir(fs, args.dest_root)
          /\ pc' = "raised" /\ exc' = "RuntimeError" /\ UNCHANGED source_items
     ELSE /\ fs' = Mkdir(fs, args.dest_root)
          /\ source_items' = Listing(fs', rev, args.source)
          /\ pc' = "copy" /\ exc' = exc
  /\ UNCHANGED << rev, args, calls, fs0, i, logs, moved, skipped, errors,
                  files_to_remove, folders_to_remove, decisions, inspected,
                  all_verified, j, result, probe >>

\* organize is entered: the source is checked, dest_root made, the source
\* listed.
Start ==
  /\ pc = "start"
  /\ IF ~IsDir(fs, args.source)
     THEN pc' = "raised" /\ exc' = "RuntimeError" /\ UNCHANGED << fs, source_items >>
     ELSE IF MkdirFails(fs, args.dest_root)
     THEN pc' = "raised" /\ exc' = "FileExistsError" /\ UNCHANGED << fs, source_items >>
     ELSE /\ fs' = Mkdir(fs, args.dest_root)
          /\ source_items' = Listing(fs', rev, args.source)
          /\ pc' = "copy" /\ exc' = exc
  /\ UNCHANGED << rev, args, calls, fs0, i, logs, moved, skipped, errors,
                  files_to_remove, folders_to_remove, decisions, inspected,
                  all_verified, j, result, probe >>

\* One entry of the first pass.
CopyEntry ==
  /\ pc = "copy" /\ i <= Len(source_items)
  /\ LET st == ProcessEntry(args, rev, Cur, source_items[i])
     IN  /\ Becomes(st)
         /\ pc' = IF st.raised THEN "raised" ELSE "copy"
         /\ exc' = IF st.raised THEN "FileExistsError" ELSE exc
  /\ i' = i + 1
  /\ UNCHANGED << rev, args, calls, fs0, source_items, all_verified, j, result, probe >>

\* The first pass is over: the second runs, or is passed over.
EndCopy ==
  /\ pc = "copy" /\ i > Len(source_items)
  /\ IF SecondPassRuns(args, files_to_remove, folders_to_remove, errors)
     THEN /\ pc' = "verify"
          /\ logs' = logs \o << Line("", "", << >>, << >>),
                                Line("", "Verificando", << >>, << >>) >>
     ELSE pc' = "prune" /\ logs' = logs
  /\ UNCHANGED << fs, rev, args, calls, exc, fs0, source_items, i, moved, skipped,
                  errors, files_to_remove, folders_to_remove, decisions, inspected,
                  all_verified, j, result, probe >>

\* A faulty variant of Verify: one error is counted for each check that
\* failed.
VerifyCountsEach ==
  /\ pc = "verify"
  /\ all_verified' = AllVerified(args, fs, rev, files_to_remove, folders_to_remove)
  /\ logs' = logs \o FileCheckLines(args, fs, files_to_remove, 1)
                  \o FolderCheckLines(args, fs, rev, folders_to_remove, 1)
                  \o << IF all_verified'
                        THEN Line("", "Removendo originais", << >>, << >>)
                        ELSE Line("AVISO", "Originais mantidos", << >>, << >>) >>
  /\ errors' = errors + Len(FileCheckLines(args, fs, files_to_remove, 1))
                       + Len(FolderCheckLines(args, fs, rev, folders_to_remove, 1))
  /\ pc' = IF all_verified' THEN "remove" ELSE "prune"
  /\ j' = 1
  /\ UNCHANGED << fs, rev, args, calls, exc, fs0, source_items, i, moved, skipped,
                  files_to_remove, folders_to_remove, decisions, inspected,
                  result, probe >>

\* The checks of the second pass.
Verify ==
  /\ pc = "verify"
  /\ all_verified' = AllVerified(args, fs, rev, files_to_remove, folders_to_remove)
  /\ logs' = logs \o FileCheckLines(args, fs, files_to_remove, 1)
                  \o FolderCheckLines(args, fs, rev, folders_to_remove, 1)
                  \o << IF all_verified'
                        THEN Line("", "Removendo originais", << >>, << >>)
                        ELSE Line("AVISO", "Originais mantidos", << >>, << >>) >>
  /\ errors' = IF all_verified' THEN errors ELSE errors + 1
  /\ pc' = IF all_verified' THEN "remove" ELSE "prune"
  /\ j' = 1
  /\ UNCHANGED << fs, rev, args, calls, exc, fs0, source_items, i, moved, skipped,
                  files_to_remove, folders_to_remove, decisions, inspected,
                  result, probe >>

\* A faulty variant of RemoveFile: the first removal that fails ends the
\* removal loops.
RemoveFileStopsAtFailure ==
  /\ pc = "remove" /\ j <= Len(files_to_remove)
  /\ LET original_file == files_to_remove[j]
     IN  IF UnlinkFails(fs, original_file)
         THEN /\ fs' = fs
              /\ logs' = Append(logs, Line("ERRO", "Falha ao remover",
                                           Name(original_file), << >>))
              /\ errors' = errors + 1
              /\ j' = Len(files_to_remove) + Len(folders_to_remove) + 1
         ELSE /\ fs' = Unlink(fs, original_file)
              /\ logs' = Append(logs, Line("OK", "REMOVER", Name(original_file), << >>))
              /\ errors' = errors
              /\ j' = j + 1
  /\ UNCHANGED << rev, args, calls, pc, exc, fs0, source_items, i, moved, skipped,
                  files_to_remove, folders_to_remove, decisions, inspected,
                  all_verified, result, probe >>

\* One queued file is removed.
RemoveFile ==
  /\ pc = "remove" /\ j <= Len(files_to_remove)
  /\ LET original_file == files_to_remove[j]
     IN  IF UnlinkFails(fs, original_file)
         THEN /\ fs' = fs
              /\ logs' = Append(logs, Line("ERRO", "Falha ao remover",
                                           Name(original_file), << >>))
              /\ errors' = errors + 1
         ELSE /\ fs' = Unlink(fs, original_file)
              /\ logs' = Append(logs, Line("OK", "REMOVER", Name(original_file), << >>))
              /\ errors' = errors
  /\ j' = j + 1
  /\ UNCHANGED << rev, args, calls, pc, exc, fs0, source_items, i, moved, skipped,
                  files_to_remove, folders_to_remove, decisions, inspected,
                  all_verified, result, probe >>

\* One queued directory is removed, after the files.
RemoveFolder ==
  /\ pc = "remove"
  /\ j > Len(files_to_remove)
  /\ j <= Len(files_to_remove) + Len(folders_to_remove)
  /\ LET original_folder == folders_to_remove[j - Len(files_to_remove)]
     IN  /\ fs' = RmTree(fs, rev, original_folder)
         /\ IF RmTreeFails(fs, original_folder)
            THEN /\ logs' = Append(logs, Line("ERRO", "Falha ao remover pasta",
                                              Name(original_folder), << >>))
                 /\ errors' = errors + 1
            ELSE /\ logs' = Append(logs, Line("OK", "REMOVER PASTA",
                                              Name(original_folder), << >>))
                 /\ errors' = errors
  /\ j' = j + 1
  /\ UNCHANGED << rev, args, calls, pc, exc, fs0, source_items, i, moved, skipped,
                  files_to_remove, folders_to_remove, decisions, inspected,
                  all_verified, result, probe >>

EndRemove ==
  /\ pc = "remove"
  /\ j > Len(files_to_remove) + Len(folders_to_remove)
  /\ pc' = "prune"
  /\ UNCHANGED << fs, rev, args, calls, exc, fs0, source_items, i, logs, moved,
                  skipped, errors, files_to_remove, folders_to_remove, decisions,
                  inspected, all_verified, j, result, probe >>

\* The delete_empty loop.
PruneEmpty ==
  /\ pc = "prune"
  /\ fs' = Prune(args, fs)
  /\ pc' = "report"
  /\ UNCHANGED << rev, args, calls, exc, fs0, source_items, i, logs, moved, skipped,
                  errors, files_to_remove, folders_to_remove, decisions, inspected,
                  all_verified, j, result, probe >>

\* The summary line, and the return.
Return ==
  /\ pc = "report"
  /\ logs' = logs \o << Line("", "", << >>, << >>),
                        Line("", "Arquivos processados", << >>, << >>) >>
  /\ result' = [returned |-> TRUE, processed |-> moved + skipped + errors,
                moved |-> moved, skipped |-> skipped, errors |-> errors]
  /\ pc' = "done"
  /\ UNCHANGED << fs, rev, args, calls, exc, fs0, source_items, i, moved, skipped,
                  errors, files_to_remove, folders_to_remove, decisions, inspected,
                  all_verified, j, probe >>

\* main is run again with the same command line.
Rerun ==
  /\ pc = "done" /\ calls < MaxCalls
  /\ calls' = calls + 1
  /\ pc' = "start" /\ exc' = "none" /\ fs0' = fs
  /\ source_items' = << >> /\ i' = 1 /\ j' = 1 /\ all_verified' = FALSE
  /\ result' = NoResult
  /\ logs' = << >> /\ moved' = 0 /\ skipped' = 0 /\ errors' = 0
  /\ files_to_remove' = << >> /\ folders_to_remove' = << >>
  /\ decisions' = << >> /\ inspected' = {}
  /\ UNCHANGED << fs, rev, args, probe >>

Next ==
  \/ Start \/ CopyEntry \/ EndCopy \/ Verify \/ RemoveFile \/ RemoveFolder
  \/ EndRemove \/ PruneEmpty \/ Return \/ Rerun

Spec == Init /\ [][Next]_vars

(* ------------------------- classifiers alone ------------------------- *)

\* The classifiers are functions of their arguments: here each is called
\* once on its own, on arguments drawn from the sets below, and probe keeps
\* the call with its answer.

UpperChar(c) ==
  LET k == IndexOf(c, LowerChars)
  IN  IF k = 0 THEN c ELSE UpperChars[k]

Upper(s) == [k \in 1..Len(s) |-> UpperChar(s[k])]

\* The ways a configuration file may write the extension e (given in lower
\* case with its dot): as it is, in capitals, with a capital first letter,
\* and each without the dot.
Spellings(e) ==
  LET dotted == {e, Upper(e), << "." , UpperChar(e[2]) >> \o SubSeq(e, 3, Len(e))}
  IN  dotted \cup {Tail(s) : s \in dotted}

PDF == <<".","p","d","f">>

TXT == <<".","t","x","t">>

JPG == <<".","j","p","g">>

ZZ == <<".","z","z">>

ProbeConfigs ==
  {NoConfig} \cup
  { [given |-> TRUE, readable |-> readable,
     data |-> << [folder |-> DOCS, exts |-> << x, TXT >>],
                 [folder |-> IMAGENS, exts |-> << y >>] >>] :
      x \in Spellings(PDF), y \in Spellings(JPG) \cup Spellings(PDF),
      readable \in BOOLEAN }

\* The suffixes of the files classified: Path.suffix keeps the file's case.
ProbeExts ==
  {s \in Spellings(PDF) \cup Spellings(JPG) \cup Spellings(TXT) \cup Spellings(ZZ) :
     s[1] = "."} \cup {<< >>}

ProbeGuessFolder ==
  \E config \in ProbeConfigs, ext \in ProbeExts, unknown_name \in {OUTROS, DIVERSOS} :
    /\ probe.op = "none"
    /\ probe' = [op |-> "guess_folder", config |-> config, ext |-> ext,
                 unknown_name |-> unknown_name,
                 out |-> guess_folder(ext, load_map(config), unknown_name)]
    /\ UNCHANGED << fs, rev, args, calls, pc, exc, fs0, source_items, i, logs, moved,
                    skipped, errors, files_to_remove, folders_to_remove, decisions,
                    inspected, all_verified, j, result >>

\* The listings analyze_folder_content is given: every listing of up to
\* MaxListing of the items below, the folder of ten .jpg files and one .txt
\* file with the .txt file at each place, and a folder of one file more than
\* the default limit: as many .txt files as .jpg files within the limit, the
\* .txt files first, and one more .jpg file after it.
MaxListing == 3

ProbeItems ==
  { [name |-> P_JPG, is_file |-> TRUE], [name |-> Q_TXT, is_file |-> TRUE],
    [name |-> B_JPG, is_file |-> TRUE], [name |-> HID, is_file |-> TRUE],
    [name |-> N_TXT, is_file |-> FALSE] }

TenToOne(at) ==
  [k \in 1..11 |-> IF k = at THEN [name |-> Q_TXT, is_file |-> TRUE]
                             ELSE [name |-> P_JPG, is_file |-> TRUE]]

OverTheLimit ==
  [k \in 1..(DefaultMaxFiles + 1) |->
     IF 2 * k <= DefaultMaxFiles THEN [name |-> Q_TXT, is_file |-> TRUE]
                                 ELSE [name |-> P_JPG, is_file |-> TRUE]]

ProbeListings ==
  UNION {[1..n -> ProbeItems] : n \in 0..MaxListing}
    \cup {TenToOne(at) : at \in 1..11} \cup {OverTheLimit}

\* analyze_folder_content is entered with a listing; its loop then takes one
\* item at a time and its answer is given when the loop is over.
ProbeAnalyze ==
  \E items \in ProbeListings, max_files \in {1, 2, DefaultMaxFiles},
     config \in {NoConfig, CustomConfig} :
    /\ probe.op = "none"
    /\ probe' = [op |-> "analyzing", items |-> items, max_files |-> max_files,
                 ext_map |-> load_map(config), k |-> 1, tally |-> NoTally]
    /\ UNCHANGED << fs, rev, args, calls, pc, exc, fs0, source_items, i, logs, moved,
                    skipped, errors, files_to_remove, folders_to_remove, decisions,
                    inspected, all_verified, j, result >>

ProbeAnalyzeItem ==
  /\ probe.op = "analyzing"
  /\ ~TallyOver(probe.items, probe.k, probe.max_files, probe.tally)
  /\ probe' = [probe EXCEPT !.k = @ + 1,
                            !.tally = TallyStep(probe.items[probe.k], probe.ext_map, @)]
  /\ UNCHANGED << fs, rev, args, calls, pc, exc, fs0, source_items, i, logs, moved,
                  skipped, errors, files_to_remove, folders_to_remove, decisions,
                  inspected, all_verified, j, result >>

ProbeAnalyzeReturn ==
  /\ probe.op = "analyzing"
  /\ TallyOver(probe.items, probe.k, probe.max_files, probe.tally)
  /\ probe' = [op |-> "analyze", items |-> probe.items, max_files |-> probe.max_files,
               ext_map |-> probe.ext_map, out |-> TallyResult(probe.tally)]
  /\ UNCHANGED << fs, rev, args, calls, pc, exc, fs0, source_items, i, logs, moved,
                  skipped, errors, files_to_remove, folders_to_remove, decisions,
                  inspected, all_verified, j, result >>

ProbeInit ==
  /\ rev = FALSE
  /\ args = CHOOSE a \in Arguments : TRUE
  /\ fs = (<< >> :> DirNode) @@ (<< DOWNLOADS >> :> DirNode)
  /\ InitCall

ProbeNext ==
  ProbeGuessFolder \/ ProbeAnalyze \/ ProbeAnalyzeItem \/ ProbeAnalyzeReturn

SpecClassify == ProbeInit /\ [][ProbeNext]_vars


\* The first pass from entry k on, until it ends or an exception leaves it.
RECURSIVE FirstPass(_, _, _, _, _)
FirstPass(a, rev_, st, items, k) ==
  IF k > Len(items) \/ st.raised THEN st
  ELSE FirstPass(a, rev_, ProcessEntry(a, rev_, st, items[k]), items, k + 1)

(* ------------------------------ claims ------------------------------- *)

Range(seq) == {seq[k] : k \in 1..Len(seq)}

\* An entry of the snapshot was a directory when the call listed the source
\* (dest_root, made by the call itself, is one).
WasDir(p) == IF Exists(fs0, p) THEN IsDir(fs0, p) ELSE TRUE

\* The copy of entry p stands: it exists at the destination resolved for p
\* in the first pass and, for a file, has the size of the original.
CopyStands(p) ==
  \E d \in Range(decisions) :
    /\ d.entry = p
    /\ Exists(fs, d.target)
    /\ (~WasDir(p) => fs[d.target].size = fs0[p].size)

MoveReturned == pc = "done" /\ args.mode = "move" /\ ~args.dry_run

\* C1, the direction of its equivalence that protects the data: after a
\* move-mode call returns, an original of the snapshot is gone only if its
\* copy stands at the destination resolved for it (with the original's
\* size, for a file).
C1_DeletedOnlyIfCopyStands ==
  MoveReturned =>
    \A p \in Range(source_items) : ~Exists(fs, p) => CopyStands(p)

\* C2: a dry-run call leaves the file system as it found it.
C2_DryRunChangesNothing == args.dry_run => fs = fs0

\* C3: the first pass of a real run gives every entry the category and the
\* destination that a dry run from the same file system, with the same
\* arguments and the same snapshot, gives it, in the same order.
DryRunOf ==
  FirstPass([args EXCEPT !.dry_run = TRUE], rev,
            NewCall(Mkdir(fs0, args.dest_root)), source_items, 1)

FirstPassOver == pc \in {"verify", "remove", "prune", "report", "done"}

C3_SameDecisionsAsDryRun ==
  (FirstPassOver /\ ~args.dry_run) => decisions = DryRunOf.decisions

\* C4: the three counts of a returned report add up to the number of
\* entries considered: the snapshot without the directories named as a
\* category.
Considered ==
  {p \in Range(source_items) : ~(WasDir(p) /\ Name(p) \in CategoryNames(args))}

C4_CountsAddUp == pc = "done" => result.processed = Cardinality(Considered)

\* C6: a call whose source is a directory returns a report: no exception
\* leaves it.
C6_AlwaysReturns == IsDir(fs0, args.source) => pc # "raised"

\* C7: a call whose source is not a directory ends in the invalid-source
\* error, with the file system as it was and no report.
C7_InvalidSourceIsFatal ==
  (~IsDir(fs0, args.source) /\ pc # "start") =>
    /\ pc = "raised" /\ exc = "RuntimeError"
    /\ fs = fs0
    /\ ~Exists(fs, args.dest_root)
    /\ ~result.returned

\* A call on a source that is a file, not a directory, has ended in the error.
C7_Witness ==
  /\ IsFile(fs0, args.source)
  /\ pc = "raised" /\ exc = "RuntimeError"
  /\ ~Exists(fs, args.dest_root)

\* C8: a directory whose lower-cased name holds a keyword goes to the
\* category of the first keyword that matches, and its content is not
\* listed.
KeywordHits(name) ==
  {c \in 1..Len(FOLDER_KEYWORDS) :
     \E k \in 1..Len(FOLDER_KEYWORDS[c].keywords) :
       Contains(Lower(name), FOLDER_KEYWORDS[c].keywords[k])}

C8_KeywordDecides ==
  \A d \in Range(decisions) :
    (WasDir(d.entry) /\ KeywordHits(Name(d.entry)) # {}) =>
      /\ d.category = FOLDER_KEYWORDS[Min(KeywordHits(Name(d.entry)))].category
      /\ d.entry \notin inspected

\* C5: the first pass never writes onto a path that exists: an entry goes
\* to the candidate name when that is free and else to the numbered name
\* with the smallest free number from 1 on, and what was at the destination
\* stays as it was.
C5_CopyNeverOverwrites ==
  [][(pc = "copy" /\ Len(decisions') = Len(decisions) + 1) =>
       LET d         == decisions'[Len(decisions')]
           dir       == Parent(d.target)
           before    == Mkdir(fs, dir)
           candidate == Append(dir, Name(d.entry))
           numbered(n) == Append(dir, NumberedName(Name(d.entry), IsDir(fs, d.entry), n))
           free(q)   == ~Exists(before, q) \/ q = d.entry
       IN  /\ free(d.target)
           /\ IF free(candidate) THEN d.target = candidate
              ELSE \E n \in 1..Cardinality(DOMAIN before) :
                     /\ d.target = numbered(n)
                     /\ \A m \in 1..(n - 1) : ~free(numbered(m))
           /\ \A q \in DOMAIN fs : q \in DOMAIN fs' /\ fs'[q] = fs[q]
    ]_vars

\* A second copy-mode run has put a.pdf beside the first run's a.pdf, as
\* "a (1).pdf".
C5_Witness ==
  /\ calls = 2 /\ args.mode = "copy" /\ ~args.dry_run
  /\ \E d \in Range(decisions) :
       /\ Name(d.entry) = A_PDF
       /\ Name(d.target) = <<"a"," ","(","1",")",".","p","d","f">>
       /\ IsFile(fs, d.target)
       /\ IsFile(fs, Append(Parent(d.target), A_PDF))
       /\ ~Exists(fs0, d.target)

\* C9: guess_folder gives the first category of the map whose extensions
\* hold the lower-cased extension, and the fallback name when none does;
\* and when one category alone of a configuration file writes the
\* extension, in whatever case and with or without its dot, a file with
\* that extension, in whatever case, goes to that category.
Bare(e) == IF StartsWith(Lower(e), << "." >>) THEN Tail(Lower(e)) ELSE Lower(e)

Writes(section, ext) ==
  \E n \in 1..Len(section.exts) : Bare(section.exts[n]) = Bare(ext)

C9_ExtensionDecides ==
  probe.op = "guess_folder" =>
    LET ext_map == load_map(probe.config)
        hits    == {k \in 1..Len(ext_map) : InSeq(Lower(probe.ext), ext_map[k].exts)}
        data    == probe.config.data
    IN  /\ probe.out = IF hits = {} THEN probe.unknown_name
                       ELSE ext_map[Min(hits)].folder
        /\ (probe.config.given /\ probe.config.readable /\ probe.ext # << >>) =>
             \A k \in 1..Len(data) :
               (/\ Writes(data[k], probe.ext)
                /\ \A m \in 1..Len(data) : m # k => ~Writes(data[m], probe.ext))
               => probe.out = data[k].folder

\* A configuration wrote "PDF", the file ends in ".pdf" or ".Pdf", and the
\* answer is the category that wrote it.
C9_Witness ==
  /\ probe.op = "guess_folder"
  /\ probe.config.given /\ probe.config.readable
  /\ probe.config.data[1].exts[1] = <<"P","D","F">>
  /\ ~Writes(probe.config.data[2], PDF)
  /\ probe.ext = <<".","P","d","f">>
  /\ probe.out = DOCS

\* C10: the content classifier counts the first max_files files of the
\* listing, directories left out, by the category of their extension, and
\* answers the category counted most often, the one met first among equals;
\* ten .jpg files and one .txt file give the image category.
C10_MostFrequentCategory ==
  probe.op = "analyze" =>
    LET files      == SelectSeq(probe.items, LAMBDA it : it.is_file)
        considered == SubSeq(files, 1, Min({probe.max_files, Len(files)}))
        cat(k)     == guess_folder(Suffix(considered[k].name), probe.ext_map, OUTROS)
        count(c)   == Cardinality({k \in 1..Len(considered) : cat(k) = c})
        first(c)   == Min({k \in 1..Len(considered) : cat(k) = c})
    IN  /\ considered # << >> =>
             \A k \in 1..Len(considered) :
               /\ count(cat(k)) <= count(probe.out)
               /\ count(cat(k)) = count(probe.out) => first(probe.out) <= first(cat(k))
        /\ (/\ probe.items \in {TenToOne(at) : at \in 1..11}
            /\ probe.max_files = DefaultMaxFiles
            /\ probe.ext_map = DEFAULT_MAP) => probe.out = IMAGENS

\* One file more than the limit: the answer is that of the first max_files
\* files, a tie that goes to the category met first, though the file after
\* them would break the tie the other way.
C10_Witness ==
  /\ probe.op = "analyze"
  /\ probe.items = OverTheLimit
  /\ probe.max_files = DefaultMaxFiles
  /\ probe.ext_map = DEFAULT_MAP
  /\ probe.out = DOCUMENTOS

\* The queued originals, by their place in the two queues, whose check
\* fails in the file system as it is.
FailedChecks ==
  {k \in 1..Len(files_to_remove) : ~FileVerified(args, fs, files_to_remove[k])}
    \cup {Len(files_to_remove) + k : k \in
             {k \in 1..Len(folders_to_remove) :
                ~FolderVerified(args, fs, rev, folders_to_remove[k])}}

\* C11: when a check of the second pass fails, the pass removes nothing and
\* adds one to errors, however many checks failed: the removal loops are
\* entered only when every check passed.
C11_FailedCheckKeepsOriginals ==
  /\ [][(pc = "verify" /\ FailedChecks # {}) =>
          (errors' = errors + 1 /\ fs' = fs /\ pc' = "prune")]_vars
  /\ []((pc = "remove" /\ j = 1) => FailedChecks = {})

\* Two queued files have failed their checks, errors is one, and both
\* originals are where they were.
C11_Witness ==
  /\ pc = "prune" /\ args.mode = "move" /\ ~all_verified
  /\ Cardinality(FailedChecks) = 2
  /\ errors = 1
  /\ \A k \in 1..Len(files_to_remove) : IsFile(fs, files_to_remove[k])

\* The destination the first pass resolved for entry p.
TargetOf(p) == (CHOOSE d \in Range(decisions) : d.entry = p).target

SecondPassRan == \E k \in 1..Len(logs) : logs[k].verb = "Verificando"

\* C12: the second pass checks each queued original at the destination
\* the first pass resolved for it, so that once it has run, after a first
\* pass without errors, every check has passed.
C12_ChecksResolvedPath ==
  /\ pc = "verify" =>
       /\ \A k \in 1..Len(files_to_remove) :
            FileCheckPath(args, files_to_remove[k]) = TargetOf(files_to_remove[k])
       /\ \A k \in 1..Len(folders_to_remove) :
            FolderCheckPath(args, fs, rev, folders_to_remove[k])
              = TargetOf(folders_to_remove[k])
  /\ (pc = "prune" /\ SecondPassRan) => all_verified

Queued == Range(files_to_remove) \cup Range(folders_to_remove)

\* C11 as it is worded: after a failed check no queued original is gone
\* when the call returns.
C11_NoQueuedOriginalGone ==
  (pc = "done" /\ SecondPassRan /\ ~all_verified) =>
    /\ errors = 1
    /\ \A p \in Queued : Exists(fs, p)

\* A copy of the first pass failed.
CopyFailed ==
  \E k \in 1..Len(logs) : logs[k].tag = "ERRO" /\ logs[k].verb \in {"", "PASTA"}

WasEmptyDir(p) == Exists(fs0, p) /\ IsDir(fs0, p) /\ Children(fs0, p) = {}

DestinationCategories(a) ==
  CategoryNames(a)
    \cup {FOLDER_KEYWORDS[k].category : k \in 1..Len(FOLDER_KEYWORDS)}
    \cup {OUTROS}

Processed == {d.entry : d \in Range(decisions)}

\* C15: a directory of the snapshot that bears the name of a destination
\* category is left alone: it is not classified, not copied, not queued
\* and not removed.
C15_CategoryFoldersLeftAlone ==
  \A p \in Range(source_items) :
    (IsDir(fs0, p) /\ Name(p) \in DestinationCategories(args)) =>
      /\ p \notin Processed
      /\ p \notin inspected
      /\ p \notin Queued
      /\ Exists(fs, p)

\* The lines the removal loops have logged, and the queued originals in
\* the order the loops take them.
RemovalLines ==
  SelectSeq(logs, LAMBDA l : l.verb \in {"REMOVER", "Falha ao remover",
                                         "REMOVER PASTA", "Falha ao remover pasta"})

QueuedInOrder == files_to_remove \o folders_to_remove

RemovalsOver == all_verified /\ pc \in {"prune", "report", "done"}

\* C16: once the removal loops are over, every queued original has had its
\* attempt, in order, and has its line; an original whose removal did not
\* fail is gone, whatever happened to those before it; errors is the
\* number of removals that failed.
C16_EveryQueuedOriginalAttempted ==
  RemovalsOver =>
    /\ Len(RemovalLines) = Len(QueuedInOrder)
    /\ \A k \in 1..Len(QueuedInOrder) :
         /\ RemovalLines[k].name = Name(QueuedInOrder[k])
         /\ RemovalLines[k].tag = "OK" <=> ~Exists(fs, QueuedInOrder[k])
         /\ RemovalLines[k].tag \in {"OK", "ERRO"}
    /\ errors = Cardinality({k \in 1..Len(RemovalLines) : RemovalLines[k].tag = "ERRO"})

\* The first of two queued originals could not be removed, and the second
\* is gone.
C16_Witness ==
  /\ RemovalsOver /\ Len(QueuedInOrder) = 2
  /\ RemovalLines[1].tag = "ERRO" /\ Exists(fs, QueuedInOrder[1])
  /\ RemovalLines[2].tag = "OK" /\ ~Exists(fs, QueuedInOrder[2])
  /\ errors = 1

\* The direct subdirectories of source that hold nothing, in the file
\* system as it is.
EmptyNow ==
  {d \in DOMAIN fs : /\ Len(d) = Len(args.source) + 1
                     /\ IsPrefix(args.source, d)
                     /\ fs[d].kind = "dir"
                     /\ ~\E q \in DOMAIN fs : q # d /\ IsPrefix(d, q)}

NoMappedFile(p) ==
  \/ fs0[p].acc = "noread"
  \/ \A q \in Children(fs0, p) :
       IsFile(fs0, q) =>
         ~\E k \in 1..Len(args.ext_map) :
            InSeq(Lower(Suffix(Name(q))), args.ext_map[k].exts)

\* C18: a directory whose name holds no keyword and whose content gives no
\* category goes under the fallback name the caller passed.
C18_FallbackForUnclassifiable ==
  \A d \in Range(decisions) :
    (/\ IsDir(fs0, d.entry)
     /\ ~IsPrefix(d.entry, args.dest_root)
     /\ KeywordHits(Name(d.entry)) = {}
     /\ NoMappedFile(d.entry)) => d.category = args.unknown_name

\* C19: a directory is never copied to a destination inside itself, and
\* dest_root is never taken as an entry nor queued for removal.
C19_NeverCopiedIntoItself ==
  /\ ~args.dry_run =>
       \A d \in Range(decisions) : WasDir(d.entry) => ~IsPrefix(d.entry, d.target)
  /\ args.dest_root \notin Processed
  /\ args.dest_root \notin Queued
====
